---- MODULE Spec2Model ----
(***************************************************************************)
(* One server-side session of the transcription relay (the closure created *)
(* by wss.on('connection') in the DeepL server): the client WebSocket, the *)
(* upstream Deepgram connections the session creates, the microphone       *)
(* instances it starts, the reconnect timers and the in-flight translation *)
(* calls.  Every event handler of the session is one action.               *)
(***************************************************************************)
EXTENDS Integers, Sequences, FiniteSets, TLC

\* ---------------------------------------------------------------- bounds
MaxConns == 4          \* upstream connections one session creates
MaxInputs == 2         \* audio chunks, transcripts and client messages that arrive
MaxCloseRuns == 2      \* runs of the client-close handler (SpecTwice only)
MaxSocks == 4          \* WebSockets one browser component creates
MaxGestures == 2       \* user gestures on one browser component

\* ---------------------------------------------------------------- inputs
DefaultLanguage == "ja"
InputLanguages == {"ja", "ko", "fr"}
ChunkLens == {1, 2}
\* transcripts: empty, whitespace only, plain, with leading whitespace
Texts == {<<>>, <<" ">>, <<"h">>, <<" ", "h">>}

VARIABLES
  ws,                   \* ws.readyState: "OPEN", "CLOSING", "CLOSED"
  deepgramConnection,   \* index into conns of the current handle, 0 = undefined
  micInstance,          \* index into mics of the current handle, 0 = undefined
  isDeepgramConnected,
  totalAudioBytesSent,
  currentLanguage,
  isMuted,
  isWebSocketClosed,
  conns,                \* every upstream connection the session created
  mics,                 \* every microphone instance the session started
  timers,               \* pending reconnect timers (setTimeout 5000)
  pending,              \* translation calls in flight
  delivered,            \* 'transcript' events passed to ws.send, in order
  forwarded,            \* audio chunks passed to deepgramConnection.send, in order
  inputs,               \* audio chunks, transcripts and client messages so far
  ev,                   \* the handler that ran last
  out,                  \* messages the last handler passed to the client link
  closeRuns,            \* runs of the ws 'close' handler
  lastLangMsg,          \* language of the last setLanguage message, "none" before
  created,               \* connections created since the last upstream close
                        \* with the client open, -1 once a connection opened
  \* the browser components (one component instance)
  socks,                \* every WebSocket the component created
  wsRef,                \* wsRef.current: index into socks, 0 = null
  uiTimers,             \* every setTimeout the component made
  reconnectTimeoutRef,  \* index into uiTimers, 0 = null
  mounted,
  isReconnecting,
  isMicrophoneActive,
  activations,          \* activateMicrophone() calls and where each stands
  clientSent,           \* messages accepted by a socket's send()
  uiInputs,             \* user gestures so far
  uiEv                  \* name of the last browser handler

serverVars == <<ws, deepgramConnection, micInstance, isDeepgramConnected,
          totalAudioBytesSent, currentLanguage, isMuted, isWebSocketClosed,
          conns, mics, timers, pending, delivered, forwarded, inputs,
          ev, out, closeRuns, lastLangMsg, created>>

uiVars == <<socks, wsRef, uiTimers, reconnectTimeoutRef, mounted,
            isReconnecting, isMicrophoneActive, activations, clientSent,
            uiInputs, uiEv>>

vars == <<serverVars, uiVars>>

\* ------------------------------------------------------------ pure helpers
supportedLanguages(code) ==
  CASE code = "ja" -> "Japanese"
    [] code = "ko" -> "Korean"
    [] code = "ZH-HANT" -> "Chinese (Traditional)"
    [] code = "es" -> "Spanish"
    [] OTHER -> "undefined"

IsSpace(ch) == ch = " "

RECURSIVE TrimStart(_)
TrimStart(s) ==
  IF s = <<>> THEN <<>>
  ELSE IF IsSpace(Head(s)) THEN TrimStart(Tail(s)) ELSE s

RECURSIVE TrimEnd(_)
TrimEnd(s) ==
  IF s = <<>> THEN <<>>
  ELSE IF IsSpace(s[Len(s)]) THEN TrimEnd(SubSeq(s, 1, Len(s) - 1)) ELSE s

\* String.prototype.trim
Trim(s) == TrimEnd(TrimStart(s))

IsNonEmpty_noTrim(transcript) == transcript # <<>>

\* transcript && transcript.trim() !== ''
IsNonEmpty(transcript) == transcript # <<>> /\ Trim(transcript) # <<>>

\* the result the translation service returns for a call that succeeds
NoResult == [text |-> <<>>, lang |-> ""]
TranslateResult(text, lang) == [text |-> text, lang |-> lang]

NoPayload == [original |-> <<>>, translated |-> NoResult, language |-> ""]

\* ------------------------------------------------------------ client link
\* sendDebugToClient: sends only when the link is open
sendDebugToClient(w, message) ==
  IF w = "OPEN"
  THEN <<[type |-> "debug", data |-> message, payload |-> NoPayload, link |-> w]>>
  ELSE <<>>

\* a bare ws.send(JSON.stringify({type, data})), whatever the link's state
wsSend(w, type, data) ==
  <<[type |-> type, data |-> data, payload |-> NoPayload, link |-> w]>>

wsSendTranscript(w, payload) ==
  <<[type |-> "transcript", data |-> "", payload |-> payload, link |-> w]>>

\* ------------------------------------------------------------ upstream
NewConn == [state |-> "connecting", finishCalls |-> 0, listeners |-> 0]
NewMic == [running |-> TRUE, stopCalls |-> 0, errored |-> FALSE]

Live(c) == conns[c].state # "closed"

\* line 57: the early return of setupDeepgram
SetupReturnsEarly_connectedOnly == isDeepgramConnected
SetupReturnsEarly == isDeepgramConnected \/ isWebSocketClosed

\* the effect of setupDeepgram() on the connections, the handle and the link
SetupConns == IF SetupReturnsEarly THEN conns ELSE Append(conns, NewConn)
SetupHandle == IF SetupReturnsEarly THEN deepgramConnection ELSE Len(conns) + 1
SetupOut_connected ==
  IF SetupReturnsEarly THEN <<>>
  ELSE sendDebugToClient(ws, "Creating Deepgram connection...")
       \o wsSend(ws, "status", "Connected")
SetupOut == IF SetupReturnsEarly THEN <<>>
            ELSE sendDebugToClient(ws, "Creating Deepgram connection...")

\* room for one more connection, counting the timers that will create one
Room == Len(conns) + timers < MaxConns

\* the connections created since the last close, after a step to cs
CountCreated(cs) ==
  IF Len(cs) > Len(conns) /\ created >= 0 THEN created + 1 ELSE created

\* deepgramConnection.getReadyState() === WebSocket.OPEN on the current handle
HandleOpen == deepgramConnection # 0 /\ conns[deepgramConnection].state = "open"

\* ------------------------------------------------------------ initial state
\* the state after the wss 'connection' callback has run: setupDeepgram()
\* created the first upstream connection, nothing else has happened
\* no browser component is part of the server's specification
UiIdle ==
  /\ socks = <<>>
  /\ wsRef = 0
  /\ uiTimers = <<>>
  /\ reconnectTimeoutRef = 0
  /\ mounted = FALSE
  /\ isReconnecting = FALSE
  /\ isMicrophoneActive = FALSE
  /\ activations = <<>>
  /\ clientSent = <<>>
  /\ uiInputs = 0
  /\ uiEv = "none"

ServerInit ==
  /\ ws = "OPEN"
  /\ deepgramConnection = 1
  /\ micInstance = 0
  /\ isDeepgramConnected = FALSE
  /\ totalAudioBytesSent = 0
  /\ currentLanguage = DefaultLanguage
  /\ isMuted = FALSE
  /\ isWebSocketClosed = FALSE
  /\ conns = <<NewConn>>
  /\ mics = <<>>
  /\ timers = 0
  /\ pending = {}
  /\ delivered = <<>>
  /\ forwarded = <<>>
  /\ inputs = 0
  /\ ev = "connection"
  /\ out = sendDebugToClient("OPEN", "New WebSocket connection established")
           \o sendDebugToClient("OPEN", "Creating Deepgram connection...")
  /\ closeRuns = 0
  /\ lastLangMsg = "none"
  /\ created = -1

Init == ServerInit /\ UiIdle

\* ------------------------------------------------------------ upstream events
\* micInstance.stop()
Stop(ms, h) == [ms EXCEPT ![h].running = FALSE, ![h].stopCalls = @ + 1]

Finish(cs, h) == [cs EXCEPT ![h].finishCalls = @ + 1]

\* what the Open listener sends to the client (lines 83-85 and 186)
OpenOut == sendDebugToClient(ws, "Deepgram connection opened")
           \o wsSend(ws, "status", "Connected")
           \o sendDebugToClient(ws, "Microphone started")

\* line 77: the Open listener finds the client link closed
OpenSeesClosed_never == FALSE
OpenSeesClosed == isWebSocketClosed

\* LiveTranscriptionEvents.Open of connection c
UpstreamOpen(c) ==
  /\ conns[c].state = "connecting"
  /\ ev' = "open"
  /\ IF OpenSeesClosed
     THEN /\ conns' = Finish([conns EXCEPT ![c].state = "open"], deepgramConnection)
          /\ out' = <<>>
          /\ UNCHANGED <<isDeepgramConnected, mics, micInstance>>
     ELSE /\ conns' = [[conns EXCEPT ![c].state = "open"]
                         EXCEPT ![deepgramConnection].listeners = @ + 1]
          /\ isDeepgramConnected' = TRUE
          /\ mics' = Append(mics, NewMic)
          /\ micInstance' = Len(mics) + 1
          /\ out' = OpenOut
  /\ created' = -1
  /\ UNCHANGED <<ws, deepgramConnection, totalAudioBytesSent,
                 currentLanguage, isMuted, isWebSocketClosed, timers,
                 pending, delivered, forwarded, inputs, closeRuns,
                 lastLangMsg>>
  /\ UNCHANGED uiVars

\* the target language passed to translator.translateText (line 96)
TranslateLang_default == DefaultLanguage
TranslateLang == currentLanguage

\* what one Transcript listener sends to the client before it suspends
TranscriptOut(text) ==
  sendDebugToClient(ws, "Raw transcript data")
  \o sendDebugToClient(ws, "Extracted transcript")
  \o (IF IsNonEmpty(text)
      THEN sendDebugToClient(ws, "Received non-empty transcript")
      ELSE sendDebugToClient(ws, "Received empty transcript"))

RECURSIVE Repeat(_, _)
Repeat(s, k) == IF k = 0 THEN <<>> ELSE s \o Repeat(s, k - 1)

\* LiveTranscriptionEvents.Transcript of connection c: every listener that
\* was registered on c runs up to its await
UpstreamTranscript(c, text) ==
  /\ conns[c].state = "open"
  /\ conns[c].listeners > 0
  /\ inputs < MaxInputs
  /\ inputs' = inputs + 1
  /\ ev' = "transcript"
  /\ pending' = IF IsNonEmpty(text)
                THEN pending \cup
                     {[id |-> inputs + 1, listener |-> k, text |-> text,
                       lang |-> TranslateLang] : k \in 1..conns[c].listeners}
                ELSE pending
  /\ out' = Repeat(TranscriptOut(text), conns[c].listeners)
  /\ UNCHANGED <<ws, deepgramConnection, micInstance, isDeepgramConnected,
                 totalAudioBytesSent, currentLanguage, isMuted,
                 isWebSocketClosed, conns, mics, timers, delivered,
                 forwarded, closeRuns, lastLangMsg,
                 created>>
  /\ UNCHANGED uiVars

\* the language label put into the 'transcript' event (line 103), read when
\* the translation call has returned
PayloadLanguage(p) == supportedLanguages(currentLanguage)

\* await translator.translateText(...) returns for call p
TranslationResolve(p) ==
  /\ p \in pending
  /\ pending' = pending \ {p}
  /\ ev' = "resolve"
  /\ LET payload == [original |-> p.text,
                     translated |-> TranslateResult(p.text, p.lang),
                     language |-> PayloadLanguage(p)]
     IN /\ delivered' = Append(delivered,
                               [id |-> p.id, listener |-> p.listener,
                                lang |-> p.lang, payload |-> payload,
                                link |-> ws])
        /\ out' = sendDebugToClient(ws, "Translated text")
                  \o wsSendTranscript(ws, payload)
  /\ UNCHANGED <<ws, deepgramConnection, micInstance, isDeepgramConnected,
                 totalAudioBytesSent, currentLanguage, isMuted,
                 isWebSocketClosed, conns, mics, timers, forwarded, inputs,
                 closeRuns, lastLangMsg,
                 created>>
  /\ UNCHANGED uiVars

\* what the catch block sends to the client (line 108)
RejectOut_silent == <<>>
RejectOut == sendDebugToClient(ws, "Translation error")

\* await translator.translateText(...) throws for call p
TranslationReject(p) ==
  /\ p \in pending
  /\ pending' = pending \ {p}
  /\ ev' = "reject"
  /\ out' = RejectOut
  /\ UNCHANGED <<ws, deepgramConnection, micInstance, isDeepgramConnected,
                 totalAudioBytesSent, currentLanguage, isMuted,
                 isWebSocketClosed, conns, mics, timers, delivered,
                 forwarded, inputs, closeRuns, lastLangMsg,
                 created>>
  /\ UNCHANGED uiVars

\* LiveTranscriptionEvents.Error / 'error' of connection c (both listeners)
UpstreamError(c) ==
  /\ Live(c)
  /\ ev' = "error"
  /\ out' = sendDebugToClient(ws, "Deepgram error")
            \o wsSend(ws, "error", "Transcription error occurred")
            \o sendDebugToClient(ws, "Unhandled Deepgram error")
  /\ UNCHANGED <<ws, deepgramConnection, micInstance, isDeepgramConnected,
                 totalAudioBytesSent, currentLanguage, isMuted,
                 isWebSocketClosed, conns, mics, timers, pending, delivered,
                 forwarded, inputs, closeRuns, lastLangMsg,
                 created>>
  /\ UNCHANGED uiVars

\* what the Close listener sends to the client (lines 126-128)
CloseOut_noStatus == sendDebugToClient(ws, "Deepgram connection closed")
CloseOut == sendDebugToClient(ws, "Deepgram connection closed")
            \o wsSend(ws, "status", "Disconnected")

\* line 130: the Close listener schedules a reconnect
SchedulesReconnect == ~isWebSocketClosed /\ ws = "OPEN"

\* LiveTranscriptionEvents.Close of connection c
UpstreamClose(c) ==
  /\ Live(c)
  /\ SchedulesReconnect => Room
  /\ ev' = "close"
  /\ conns' = [conns EXCEPT ![c].state = "closed"]
  /\ isDeepgramConnected' = FALSE
  /\ out' = CloseOut
  /\ timers' = IF SchedulesReconnect THEN timers + 1 ELSE timers
  /\ created' = IF ws = "OPEN" THEN 0 ELSE created
  /\ UNCHANGED <<ws, deepgramConnection, micInstance, totalAudioBytesSent,
                 currentLanguage, isMuted, isWebSocketClosed, mics, pending,
                 delivered, forwarded, inputs, closeRuns, lastLangMsg>>
  /\ UNCHANGED uiVars

\* the setTimeout callback of the Close listener (lines 131-134)
TimerFire ==
  /\ timers > 0
  /\ timers' = timers - 1
  /\ ev' = "timer"
  /\ conns' = SetupConns
  /\ deepgramConnection' = SetupHandle
  /\ out' = sendDebugToClient(ws, "Attempting to reconnect to Deepgram...")
            \o SetupOut
  /\ created' = CountCreated(conns')
  /\ UNCHANGED <<ws, micInstance, isDeepgramConnected, totalAudioBytesSent,
                 currentLanguage, isMuted, isWebSocketClosed, mics, pending,
                 delivered, forwarded, inputs, closeRuns, lastLangMsg>>
  /\ UNCHANGED uiVars

\* ------------------------------------------------------------ audio
\* "Sent N total bytes" is logged when 5 seconds have passed since the last
\* log (lines 163-167); the clock is an input
SentLog(log) ==
  IF log THEN sendDebugToClient(ws, "Sent total bytes of audio data to Deepgram")
  ELSE <<>>

Chunk(src, len) ==
  [id |-> inputs + 1, src |-> src, len |-> len, conn |-> deepgramConnection,
   muted |-> isMuted]

\* deepgramConnection.send(data): the chunk goes out at once, after the
\* chunks sent before it
Send_twice(sent, chunk) == sent \o <<chunk, chunk>>
Send(sent, chunk) == Append(sent, chunk)

\* totalAudioBytesSent += data.length
AddBytes_one(total, len) == total + 1
AddBytes(total, len) == total + len

\* line 160: the microphone handler forwards the chunk
MicForwards_flagOnly == isDeepgramConnected
MicForwards == isDeepgramConnected /\ HandleOpen

\* micInputStream.on('data') of a running microphone instance
MicData(len, log) ==
  /\ \E m \in 1..Len(mics) : mics[m].running
  /\ inputs < MaxInputs
  /\ inputs' = inputs + 1
  /\ ev' = "micData"
  /\ IF MicForwards
     THEN /\ forwarded' = Send(forwarded, Chunk("mic", len))
          /\ totalAudioBytesSent' = AddBytes(totalAudioBytesSent, len)
          /\ out' = SentLog(log)
          /\ UNCHANGED <<conns, deepgramConnection>>
     ELSE /\ ~log
          /\ (~isDeepgramConnected /\ ~SetupReturnsEarly) => Room
          /\ out' = sendDebugToClient(ws, "Microphone data received, but Deepgram connection is not open")
                    \o (IF ~isDeepgramConnected
                        THEN sendDebugToClient(ws, "Attempting to reconnect to Deepgram...")
                             \o SetupOut
                        ELSE <<>>)
          /\ conns' = IF ~isDeepgramConnected THEN SetupConns ELSE conns
          /\ deepgramConnection' = IF ~isDeepgramConnected THEN SetupHandle
                                   ELSE deepgramConnection
          /\ UNCHANGED <<forwarded, totalAudioBytesSent>>
  /\ created' = CountCreated(conns')
  /\ UNCHANGED <<ws, micInstance, isDeepgramConnected, currentLanguage,
                 isMuted, isWebSocketClosed, mics, timers, pending,
                 delivered, closeRuns, lastLangMsg>>
  /\ UNCHANGED uiVars

\* line 197: the audioData branch forwards the chunk
AudioDataForwards == ~isMuted /\ isDeepgramConnected /\ HandleOpen

\* ws.on('message') with {type: 'audioData', audio}
ClientAudioData(len, log) ==
  /\ ws = "OPEN"
  /\ inputs < MaxInputs
  /\ inputs' = inputs + 1
  /\ ev' = "audioData"
  /\ IF AudioDataForwards
     THEN /\ forwarded' = Send(forwarded, Chunk("client", len))
          /\ totalAudioBytesSent' = AddBytes(totalAudioBytesSent, len)
          /\ out' = SentLog(log)
     ELSE /\ ~log
          /\ out' = <<>>
          /\ UNCHANGED <<forwarded, totalAudioBytesSent>>
  /\ UNCHANGED <<ws, deepgramConnection, micInstance, isDeepgramConnected,
                 currentLanguage, isMuted, isWebSocketClosed, conns, mics,
                 timers, pending, delivered, closeRuns, lastLangMsg,
                 created>>
  /\ UNCHANGED uiVars

\* ------------------------------------------------------------ client messages
\* ws.on('message') with {type: 'setLanguage', language}
SetLanguage_restart(language) ==
  /\ ws = "OPEN"
  /\ inputs < MaxInputs
  /\ inputs' = inputs + 1
  /\ ev' = "setLanguage"
  /\ currentLanguage' = language
  /\ lastLangMsg' = language
  /\ out' = sendDebugToClient(ws, "Language set to")
  /\ conns' = Finish(conns, deepgramConnection)
  /\ UNCHANGED <<ws, deepgramConnection, micInstance, isDeepgramConnected,
                 totalAudioBytesSent, isMuted, isWebSocketClosed, mics, timers, pending, delivered, forwarded, closeRuns,
                 created>>
  /\ UNCHANGED uiVars

SetLanguage(language) ==
  /\ ws = "OPEN"
  /\ inputs < MaxInputs
  /\ inputs' = inputs + 1
  /\ ev' = "setLanguage"
  /\ currentLanguage' = language
  /\ lastLangMsg' = language
  /\ out' = sendDebugToClient(ws, "Language set to")
  /\ UNCHANGED <<ws, deepgramConnection, micInstance, isDeepgramConnected,
                 totalAudioBytesSent, isMuted, isWebSocketClosed, conns,
                 mics, timers, pending, delivered, forwarded, closeRuns,
                 created>>
  /\ UNCHANGED uiVars

\* ws.on('message') with {type: 'mute'}
Mute_stopsMic ==
  /\ ws = "OPEN"
  /\ inputs < MaxInputs
  /\ inputs' = inputs + 1
  /\ ev' = "mute"
  /\ isMuted' = TRUE
  /\ mics' = IF micInstance # 0 THEN Stop(mics, micInstance) ELSE mics
  /\ out' = sendDebugToClient(ws, "Client is muted, stopping audio data transmission.")
  /\ UNCHANGED <<ws, deepgramConnection, micInstance, isDeepgramConnected,
                 totalAudioBytesSent, currentLanguage, isWebSocketClosed,
                 conns, timers, pending, delivered, forwarded,
                 closeRuns, lastLangMsg,
                 created>>
  /\ UNCHANGED uiVars

Mute ==
  /\ ws = "OPEN"
  /\ inputs < MaxInputs
  /\ inputs' = inputs + 1
  /\ ev' = "mute"
  /\ isMuted' = TRUE
  /\ out' = sendDebugToClient(ws, "Client is muted, stopping audio data transmission.")
  /\ UNCHANGED <<ws, deepgramConnection, micInstance, isDeepgramConnected,
                 totalAudioBytesSent, currentLanguage, isWebSocketClosed,
                 conns, mics, timers, pending, delivered, forwarded,
                 closeRuns, lastLangMsg,
                 created>>
  /\ UNCHANGED uiVars

\* ws.on('message') with {type: 'unmute'}
Unmute ==
  /\ ws = "OPEN"
  /\ inputs < MaxInputs
  /\ inputs' = inputs + 1
  /\ ev' = "unmute"
  /\ isMuted' = FALSE
  /\ out' = sendDebugToClient(ws, "Client is unmuted, resuming audio data transmission.")
  /\ UNCHANGED <<ws, deepgramConnection, micInstance, isDeepgramConnected,
                 totalAudioBytesSent, currentLanguage, isWebSocketClosed,
                 conns, mics, timers, pending, delivered, forwarded,
                 closeRuns, lastLangMsg,
                 created>>
  /\ UNCHANGED uiVars

\* inbound frames that match no branch of the message handler: a JSON message
\* of a type the handler does not know, a text frame that is not JSON, and a
\* binary frame
OtherMessages == {"unknownType", "badJson", "binary"}

\* line 192: JSON.parse(message) throws, the handler ends there
ParseThrows(kind) == kind \in {"badJson", "binary"}

\* lines 206-212: the mute / unmute branches of the else-if chain
MuteChain_else(type) == IF type = "mute" THEN TRUE ELSE FALSE
MuteChain(type) ==
  IF type = "mute" THEN TRUE ELSE IF type = "unmute" THEN FALSE ELSE isMuted

\* ws.on('message') with a frame of kind `kind`
ClientOtherMessage(kind) ==
  /\ ws = "OPEN"
  /\ inputs < MaxInputs
  /\ inputs' = inputs + 1
  /\ ev' = kind
  /\ isMuted' = IF ParseThrows(kind) THEN isMuted ELSE MuteChain(kind)
  /\ out' = <<>>
  /\ UNCHANGED <<ws, deepgramConnection, micInstance, isDeepgramConnected,
                 totalAudioBytesSent, currentLanguage, isWebSocketClosed,
                 conns, mics, timers, pending, delivered, forwarded,
                 closeRuns, lastLangMsg, created>>
  /\ UNCHANGED uiVars

\* ------------------------------------------------------------ microphone error
\* micInputStream.on('error') of microphone instance m (lines 179-183)
MicError(m) ==
  /\ mics[m].running
  /\ ~mics[m].errored
  /\ inputs < MaxInputs
  /\ inputs' = inputs + 1
  /\ ev' = "micError"
  /\ mics' = [mics EXCEPT ![m].errored = TRUE]
  /\ out' = sendDebugToClient(ws, "Microphone input stream error")
            \o wsSend(ws, "error", "Microphone error occurred")
  /\ UNCHANGED <<ws, deepgramConnection, micInstance, isDeepgramConnected,
                 totalAudioBytesSent, currentLanguage, isMuted,
                 isWebSocketClosed, conns, timers, pending, delivered,
                 forwarded, closeRuns, lastLangMsg, created>>
  /\ UNCHANGED uiVars

\* ------------------------------------------------------------ client close
\* the client link starts its closing handshake: readyState leaves OPEN
\* before the 'close' event is emitted
ClientClosing ==
  /\ ws = "OPEN"
  /\ ws' = "CLOSING"
  /\ ev' = "closing"
  /\ out' = <<>>
  /\ UNCHANGED <<deepgramConnection, micInstance, isDeepgramConnected,
                 totalAudioBytesSent, currentLanguage, isMuted,
                 isWebSocketClosed, conns, mics, timers, pending, delivered,
                 forwarded, inputs, closeRuns, lastLangMsg,
                 created>>
  /\ UNCHANGED uiVars

\* the body of ws.on('close') (lines 216-228); readyState is CLOSED when it runs
CloseHandler ==
  /\ ws' = "CLOSED"
  /\ closeRuns' = closeRuns + 1
  /\ ev' = "wsClose"
  /\ out' = <<>>
  /\ isWebSocketClosed' = TRUE
  /\ mics' = IF micInstance # 0 THEN Stop(mics, micInstance) ELSE mics
  /\ conns' = IF deepgramConnection # 0 THEN Finish(conns, deepgramConnection)
              ELSE conns
  /\ isDeepgramConnected' = IF deepgramConnection # 0 THEN FALSE
                            ELSE isDeepgramConnected
  /\ UNCHANGED <<deepgramConnection, micInstance, totalAudioBytesSent,
                 currentLanguage, isMuted, timers, pending, delivered,
                 forwarded, inputs, lastLangMsg,
                 created>>
  /\ UNCHANGED uiVars

\* the 'close' event of the client link
WsClose ==
  /\ ws # "CLOSED"
  /\ closeRuns = 0
  /\ CloseHandler

\* the close handler invoked once more after it has run
WsCloseAgain ==
  /\ closeRuns >= 1
  /\ closeRuns < MaxCloseRuns
  /\ CloseHandler

\* ------------------------------------------------------------ specification
Next ==
  \/ \E c \in 1..Len(conns) : UpstreamOpen(c)
  \/ \E c \in 1..Len(conns), text \in Texts : UpstreamTranscript(c, text)
  \/ \E p \in pending : TranslationResolve(p)
  \/ \E p \in pending : TranslationReject(p)
  \/ \E c \in 1..Len(conns) : UpstreamError(c)
  \/ \E c \in 1..Len(conns) : UpstreamClose(c)
  \/ TimerFire
  \/ \E len \in ChunkLens, log \in BOOLEAN : MicData(len, log)
  \/ \E len \in ChunkLens, log \in BOOLEAN : ClientAudioData(len, log)
  \/ \E language \in InputLanguages : SetLanguage(language)
  \/ Mute
  \/ Unmute
  \/ \E kind \in OtherMessages : ClientOtherMessage(kind)
  \/ \E m \in 1..Len(mics) : MicError(m)
  \/ ClientClosing
  \/ WsClose

Spec == Init /\ [][Next]_vars

\* the same session with the close handler run a second time
NextTwice == Next \/ WsCloseAgain
SpecTwice == Init /\ [][NextTwice]_vars

\* the reconnect timer fires once its delay has passed
FairSpec == Spec /\ WF_vars(TimerFire)

\* ------------------------------------------------------------ logger variant
\* The session of the winston-logger server: no language, no mute flag, no
\* isWebSocketClosed flag, no message handler and no translation.  It uses
\* the same connection, microphone and timer state.
loggerUnused == <<currentLanguage, isMuted, isWebSocketClosed, pending,
                  lastLangMsg, created>>

\* sendToClient: sends only when the link is open
sendToClient(w, type, message) ==
  IF w = "OPEN" THEN wsSend(w, type, message) ELSE <<>>

\* LiveTranscriptionEvents.Open of connection c
LoggerUpstreamOpen(c) ==
  /\ conns[c].state = "connecting"
  /\ ev' = "open"
  /\ conns' = [[conns EXCEPT ![c].state = "open"]
                 EXCEPT ![deepgramConnection].listeners = @ + 1]
  /\ isDeepgramConnected' = TRUE
  /\ mics' = Append(mics, NewMic)
  /\ micInstance' = Len(mics) + 1
  /\ out' = sendToClient(ws, "debug", "Deepgram connection opened")
            \o sendToClient(ws, "status", "Connected")
  /\ UNCHANGED <<ws, deepgramConnection, totalAudioBytesSent, timers,
                 delivered, forwarded, inputs, closeRuns>>
  /\ UNCHANGED loggerUnused
  /\ UNCHANGED uiVars

\* if (transcript): any non-empty string
LoggerTruthy(transcript) == transcript # <<>>

\* one Transcript listener: the transcript goes to the client untranslated
LoggerTranscriptOut(text) ==
  IF LoggerTruthy(text) /\ ws = "OPEN"
  THEN wsSendTranscript(ws, [original |-> text, translated |-> NoResult,
                             language |-> ""])
  ELSE <<>>

\* LiveTranscriptionEvents.Transcript of connection c
LoggerUpstreamTranscript(c, text) ==
  /\ conns[c].state = "open"
  /\ conns[c].listeners > 0
  /\ inputs < MaxInputs
  /\ inputs' = inputs + 1
  /\ ev' = "transcript"
  /\ out' = Repeat(LoggerTranscriptOut(text), conns[c].listeners)
  /\ delivered' = delivered \o
       [k \in 1..Len(out') |->
          [id |-> inputs + 1, listener |-> k, lang |-> "",
           payload |-> out'[k].payload, link |-> ws]]
  /\ UNCHANGED <<ws, deepgramConnection, micInstance, isDeepgramConnected,
                 totalAudioBytesSent, conns, mics, timers, forwarded,
                 closeRuns>>
  /\ UNCHANGED loggerUnused
  /\ UNCHANGED uiVars

\* LiveTranscriptionEvents.Error / 'error' of connection c
LoggerUpstreamError(c) ==
  /\ Live(c)
  /\ ev' = "error"
  /\ out' = sendToClient(ws, "error", "Transcription error occurred")
  /\ UNCHANGED <<ws, deepgramConnection, micInstance, isDeepgramConnected,
                 totalAudioBytesSent, conns, mics, timers, delivered,
                 forwarded, inputs, closeRuns>>
  /\ UNCHANGED loggerUnused
  /\ UNCHANGED uiVars

\* LiveTranscriptionEvents.Close of connection c: the timer is always set
LoggerUpstreamClose(c) ==
  /\ Live(c)
  /\ Room
  /\ ev' = "close"
  /\ conns' = [conns EXCEPT ![c].state = "closed"]
  /\ isDeepgramConnected' = FALSE
  /\ out' = sendToClient(ws, "status", "Disconnected")
  /\ timers' = timers + 1
  /\ UNCHANGED <<ws, deepgramConnection, micInstance, totalAudioBytesSent,
                 mics, delivered, forwarded, inputs, closeRuns>>
  /\ UNCHANGED loggerUnused
  /\ UNCHANGED uiVars

\* setupDeepgram() of the logger variant: no early return
LoggerSetupOut == sendToClient(ws, "debug", "Creating Deepgram connection...")

\* the setTimeout callback of the Close listener
LoggerTimerFire ==
  /\ timers > 0
  /\ timers' = timers - 1
  /\ ev' = "timer"
  /\ conns' = Append(conns, NewConn)
  /\ deepgramConnection' = Len(conns) + 1
  /\ out' = LoggerSetupOut
  /\ UNCHANGED <<ws, micInstance, isDeepgramConnected, totalAudioBytesSent,
                 mics, delivered, forwarded, inputs, closeRuns>>
  /\ UNCHANGED loggerUnused
  /\ UNCHANGED uiVars

\* micInputStream.on('data') of a running microphone instance
LoggerMicData(len) ==
  /\ \E m \in 1..Len(mics) : mics[m].running
  /\ inputs < MaxInputs
  /\ inputs' = inputs + 1
  /\ ev' = "micData"
  /\ IF isDeepgramConnected /\ HandleOpen
     THEN /\ forwarded' = Send(forwarded, Chunk("mic", len))
          /\ totalAudioBytesSent' = AddBytes(totalAudioBytesSent, len)
          /\ out' = <<>>
          /\ UNCHANGED <<conns, deepgramConnection>>
     ELSE IF ~isDeepgramConnected
     THEN /\ Room
          /\ conns' = Append(conns, NewConn)
          /\ deepgramConnection' = Len(conns) + 1
          /\ out' = LoggerSetupOut
          /\ UNCHANGED <<forwarded, totalAudioBytesSent>>
     ELSE /\ out' = <<>>
          /\ UNCHANGED <<conns, deepgramConnection, forwarded,
                         totalAudioBytesSent>>
  /\ UNCHANGED <<ws, micInstance, isDeepgramConnected, mics, timers,
                 delivered, closeRuns>>
  /\ UNCHANGED loggerUnused
  /\ UNCHANGED uiVars

\* micInputStream.on('error') of microphone instance m
LoggerMicError(m) ==
  /\ mics[m].running
  /\ ~mics[m].errored
  /\ inputs < MaxInputs
  /\ inputs' = inputs + 1
  /\ ev' = "micError"
  /\ mics' = [mics EXCEPT ![m].errored = TRUE]
  /\ out' = sendToClient(ws, "error", "Microphone error occurred")
  /\ UNCHANGED <<ws, deepgramConnection, micInstance, isDeepgramConnected,
                 totalAudioBytesSent, conns, timers, delivered, forwarded,
                 closeRuns>>
  /\ UNCHANGED loggerUnused
  /\ UNCHANGED uiVars

\* ws.on('close'): stops the microphone and finishes the upstream stream
LoggerWsClose ==
  /\ ws # "CLOSED"
  /\ closeRuns = 0
  /\ ws' = "CLOSED"
  /\ closeRuns' = closeRuns + 1
  /\ ev' = "wsClose"
  /\ out' = <<>>
  /\ mics' = IF micInstance # 0 THEN Stop(mics, micInstance) ELSE mics
  /\ conns' = IF deepgramConnection # 0 THEN Finish(conns, deepgramConnection)
              ELSE conns
  /\ UNCHANGED <<deepgramConnection, micInstance, isDeepgramConnected,
                 totalAudioBytesSent, timers, delivered, forwarded, inputs>>
  /\ UNCHANGED loggerUnused
  /\ UNCHANGED uiVars

LoggerNext ==
  \/ \E c \in 1..Len(conns) : LoggerUpstreamOpen(c)
  \/ \E c \in 1..Len(conns), text \in Texts : LoggerUpstreamTranscript(c, text)
  \/ \E c \in 1..Len(conns) : LoggerUpstreamError(c)
  \/ \E c \in 1..Len(conns) : LoggerUpstreamClose(c)
  \/ LoggerTimerFire
  \/ \E len \in ChunkLens : LoggerMicData(len)
  \/ \E m \in 1..Len(mics) : LoggerMicError(m)
  \/ ClientClosing
  \/ LoggerWsClose

LoggerSpec == Init /\ [][LoggerNext]_vars

\* ------------------------------------------------------------ browser: common
\* new WebSocket(url); cap is the isReconnecting value its handlers closed over
NewSock(cap) == [state |-> "connecting", cap |-> cap]

\* WebSocket.close(): a CONNECTING or OPEN socket becomes CLOSING, the close
\* event is delivered later
SockClose(ss, h) ==
  IF h # 0 /\ ss[h].state \in {"connecting", "open"}
  THEN [ss EXCEPT ![h].state = "closing"]
  ELSE ss

\* WebSocket.send(): only an OPEN socket takes the message
SockSend(ss, h, type) ==
  IF h # 0 /\ ss[h].state = "open"
  THEN Append(clientSent, [sock |-> h, type |-> type])
  ELSE clientSent

\* connectWebSocket's early return
AlreadyOpen == wsRef # 0 /\ socks[wsRef].state = "open"

NewTimer(cap) == [state |-> "pending", cap |-> cap]

\* ------------------------------------------------------------ UserTranscriptionView
\* the component after its mount effect has called connectWebSocket()
ViewInit ==
  /\ ServerInit
  /\ socks = <<NewSock(FALSE)>>
  /\ wsRef = 1
  /\ uiTimers = <<>>
  /\ reconnectTimeoutRef = 0
  /\ mounted = TRUE
  /\ isReconnecting = FALSE
  /\ isMicrophoneActive = FALSE
  /\ activations = <<>>
  /\ clientSent = <<>>
  /\ uiInputs = 0
  /\ uiEv = "mount"

\* onopen of socket s
ViewSocketOpen(s) ==
  /\ socks[s].state = "connecting"
  /\ uiEv' = "onopen"
  /\ socks' = [socks EXCEPT ![s].state = "open"]
  /\ clientSent' = SockSend(socks', wsRef, "setLanguage")
  /\ UNCHANGED <<wsRef, uiTimers, reconnectTimeoutRef, mounted,
                 isReconnecting, isMicrophoneActive, activations, uiInputs>>
  /\ UNCHANGED serverVars

\* onclose of socket s: always sets the 5 s timer
ViewSocketClose(s) ==
  /\ socks[s].state # "closed"
  /\ uiEv' = "onclose"
  /\ socks' = [socks EXCEPT ![s].state = "closed"]
  /\ uiTimers' = Append(uiTimers, NewTimer(FALSE))
  /\ UNCHANGED <<wsRef, reconnectTimeoutRef, mounted, isReconnecting,
                 isMicrophoneActive, activations, clientSent, uiInputs>>
  /\ UNCHANGED serverVars

\* the setTimeout callback: connectWebSocket()
ViewTimerFire(t) ==
  /\ uiTimers[t].state = "pending"
  /\ AlreadyOpen \/ Len(socks) < MaxSocks
  /\ uiEv' = "timer"
  /\ uiTimers' = [uiTimers EXCEPT ![t].state = "fired"]
  /\ socks' = IF AlreadyOpen THEN socks ELSE Append(socks, NewSock(FALSE))
  /\ wsRef' = IF AlreadyOpen THEN wsRef ELSE Len(socks) + 1
  /\ UNCHANGED <<reconnectTimeoutRef, mounted, isReconnecting,
                 isMicrophoneActive, activations, clientSent, uiInputs>>
  /\ UNCHANGED serverVars

\* handleLanguageChange with another language, then the re-render: the
\* effect's cleanup closes the socket and the effect connects again
ViewLanguageChange ==
  /\ mounted
  /\ uiInputs < MaxGestures
  /\ Len(socks) < MaxSocks
  /\ uiInputs' = uiInputs + 1
  /\ uiEv' = "languageChange"
  /\ clientSent' = SockSend(socks, wsRef, "setLanguage")
  /\ socks' = Append(SockClose(socks, wsRef), NewSock(FALSE))
  /\ wsRef' = Len(socks) + 1
  /\ UNCHANGED <<uiTimers, reconnectTimeoutRef, mounted, isReconnecting,
                 isMicrophoneActive, activations>>
  /\ UNCHANGED serverVars

\* unmount: the effect's cleanup closes wsRef.current
ViewUnmount ==
  /\ mounted
  /\ mounted' = FALSE
  /\ uiEv' = "unmount"
  /\ socks' = SockClose(socks, wsRef)
  /\ UNCHANGED <<wsRef, uiTimers, reconnectTimeoutRef, isReconnecting,
                 isMicrophoneActive, activations, clientSent, uiInputs>>
  /\ UNCHANGED serverVars

ViewNext ==
  \/ \E s \in 1..Len(socks) : ViewSocketOpen(s)
  \/ \E s \in 1..Len(socks) : ViewSocketClose(s)
  \/ \E t \in 1..Len(uiTimers) : ViewTimerFire(t)
  \/ ViewLanguageChange
  \/ ViewUnmount

ViewSpec == ViewInit /\ [][ViewNext]_vars

\* ------------------------------------------------------------ TranscriptionApp (App.js)
\* the component after its mount effect has called connectWebSocket(); the
\* effect has no dependencies, so this socket's handlers closed over the
\* first render's isReconnecting
AppInit ==
  /\ ServerInit
  /\ socks = <<NewSock(FALSE)>>
  /\ wsRef = 1
  /\ uiTimers = <<>>
  /\ reconnectTimeoutRef = 0
  /\ mounted = TRUE
  /\ isReconnecting = FALSE
  /\ isMicrophoneActive = FALSE
  /\ activations = <<>>
  /\ clientSent = <<>>
  /\ uiInputs = 0
  /\ uiEv = "mount"

\* a state setter: React ignores it once the component has unmounted
SetState(old, new) == IF mounted THEN new ELSE old

\* onopen of socket s
AppSocketOpen(s) ==
  /\ socks[s].state = "connecting"
  /\ uiEv' = "onopen"
  /\ socks' = [socks EXCEPT ![s].state = "open"]
  /\ isReconnecting' = SetState(isReconnecting, FALSE)
  /\ UNCHANGED <<wsRef, uiTimers, reconnectTimeoutRef, mounted,
                 isMicrophoneActive, activations, clientSent, uiInputs>>
  /\ UNCHANGED serverVars

\* line 67: the guard reads the isReconnecting the handler closed over
OncloseSchedules(s) == ~socks[s].cap

\* onclose of socket s
AppSocketClose(s) ==
  /\ socks[s].state # "closed"
  /\ uiEv' = "onclose"
  /\ socks' = [socks EXCEPT ![s].state = "closed"]
  /\ IF OncloseSchedules(s)
     THEN /\ isReconnecting' = SetState(isReconnecting, TRUE)
          /\ uiTimers' = Append(uiTimers, NewTimer(socks[s].cap))
          /\ reconnectTimeoutRef' = Len(uiTimers) + 1
     ELSE UNCHANGED <<isReconnecting, uiTimers, reconnectTimeoutRef>>
  /\ UNCHANGED <<wsRef, mounted, isMicrophoneActive, activations, clientSent,
                 uiInputs>>
  /\ UNCHANGED serverVars

\* the setTimeout callback: connectWebSocket() of the closure that set it
AppTimerFire(t) ==
  /\ uiTimers[t].state = "pending"
  /\ AlreadyOpen \/ Len(socks) < MaxSocks
  /\ uiEv' = "timer"
  /\ uiTimers' = [uiTimers EXCEPT ![t].state = "fired"]
  /\ socks' = IF AlreadyOpen THEN socks
              ELSE Append(socks, NewSock(uiTimers[t].cap))
  /\ wsRef' = IF AlreadyOpen THEN wsRef ELSE Len(socks) + 1
  /\ UNCHANGED <<reconnectTimeoutRef, mounted, isReconnecting,
                 isMicrophoneActive, activations, clientSent, uiInputs>>
  /\ UNCHANGED serverVars

\* handleReconnect: the button is shown while status is 'Disconnected', which
\* is the initial status, the status after any close and a status the server
\* sends on an open socket
AppHandleReconnect ==
  /\ mounted
  /\ uiInputs < MaxGestures
  /\ Len(socks) < MaxSocks
  /\ uiInputs' = uiInputs + 1
  /\ uiEv' = "reconnect"
  /\ socks' = Append(SockClose(socks, wsRef), NewSock(isReconnecting))
  /\ wsRef' = Len(socks) + 1
  /\ isReconnecting' = TRUE
  /\ UNCHANGED <<uiTimers, reconnectTimeoutRef, mounted, isMicrophoneActive,
                 activations, clientSent>>
  /\ UNCHANGED serverVars

\* clearTimeout(id): a pending timer is cancelled
ClearTimeout(ts, h) ==
  IF h # 0 /\ ts[h].state = "pending"
  THEN [ts EXCEPT ![h].state = "cleared"]
  ELSE ts

\* unmount: the effect's cleanup
AppUnmount ==
  /\ mounted
  /\ mounted' = FALSE
  /\ uiEv' = "unmount"
  /\ socks' = SockClose(socks, wsRef)
  /\ uiTimers' = ClearTimeout(uiTimers, reconnectTimeoutRef)
  /\ UNCHANGED <<wsRef, reconnectTimeoutRef, isReconnecting,
                 isMicrophoneActive, activations, clientSent, uiInputs>>
  /\ UNCHANGED serverVars

AppNext ==
  \/ \E s \in 1..Len(socks) : AppSocketOpen(s)
  \/ \E s \in 1..Len(socks) : AppSocketClose(s)
  \/ \E t \in 1..Len(uiTimers) : AppTimerFire(t)
  \/ AppHandleReconnect
  \/ AppUnmount

AppSpec == AppInit /\ [][AppNext]_vars

\* ------------------------------------------------------------ admin view
\* the component after mount: no socket until the microphone is activated
AdminInit ==
  /\ ServerInit
  /\ socks = <<>>
  /\ wsRef = 0
  /\ uiTimers = <<>>
  /\ reconnectTimeoutRef = 0
  /\ mounted = TRUE
  /\ isReconnecting = FALSE
  /\ isMicrophoneActive = FALSE
  /\ activations = <<>>
  /\ clientSent = <<>>
  /\ uiInputs = 0
  /\ uiEv = "mount"

\* send() on a CONNECTING socket throws InvalidStateError
SendThrows == wsRef # 0 /\ socks[wsRef].state = "connecting"

\* activateMicrophone() up to its first await
NewActivation == [stage |-> "media", sock |-> 0]

\* toggleMicrophone
AdminToggle ==
  /\ mounted
  /\ uiInputs < MaxGestures
  /\ uiInputs' = uiInputs + 1
  /\ uiEv' = "toggle"
  /\ IF isMicrophoneActive
     THEN IF SendThrows
          THEN UNCHANGED <<socks, wsRef, isMicrophoneActive, activations,
                           clientSent>>
          ELSE /\ clientSent' = SockSend(socks, wsRef, "mute")
               /\ socks' = SockClose(socks, wsRef)
               /\ wsRef' = 0
               /\ isMicrophoneActive' = FALSE
               /\ UNCHANGED activations
     ELSE /\ activations' = Append(activations, NewActivation)
          /\ clientSent' = SockSend(socks, wsRef, "unmute")
          /\ UNCHANGED <<socks, wsRef, isMicrophoneActive>>
  /\ UNCHANGED <<uiTimers, reconnectTimeoutRef, mounted, isReconnecting>>
  /\ UNCHANGED serverVars

\* getUserMedia resolves for activation a; connectWebSocket() runs
AdminMediaGranted(a) ==
  /\ activations[a].stage = "media"
  /\ AlreadyOpen \/ Len(socks) < MaxSocks
  /\ uiEv' = "mediaGranted"
  /\ IF AlreadyOpen
     THEN /\ activations' = [activations EXCEPT ![a].stage = "done"]
          /\ isMicrophoneActive' = SetState(isMicrophoneActive, TRUE)
          /\ UNCHANGED <<socks, wsRef>>
     ELSE /\ socks' = Append(socks, NewSock(FALSE))
          /\ wsRef' = Len(socks) + 1
          /\ activations' = [activations EXCEPT
                               ![a] = [stage |-> "socket",
                                       sock |-> Len(socks) + 1]]
          /\ UNCHANGED isMicrophoneActive
  /\ UNCHANGED <<uiTimers, reconnectTimeoutRef, mounted, isReconnecting,
                 clientSent, uiInputs>>
  /\ UNCHANGED serverVars

\* getUserMedia rejects for activation a
AdminMediaDenied(a) ==
  /\ activations[a].stage = "media"
  /\ uiEv' = "mediaDenied"
  /\ activations' = [activations EXCEPT ![a].stage = "failed"]
  /\ UNCHANGED <<socks, wsRef, uiTimers, reconnectTimeoutRef, mounted,
                 isReconnecting, isMicrophoneActive, clientSent, uiInputs>>
  /\ UNCHANGED serverVars

\* the activation whose connectWebSocket() promise socket s settles
Awaiting(s) ==
  {a \in DOMAIN activations :
     activations[a].stage = "socket" /\ activations[a].sock = s}

\* onopen of socket s: resolve(), then the rest of activateMicrophone
AdminSocketOpen(s) ==
  /\ socks[s].state = "connecting"
  /\ uiEv' = "onopen"
  /\ socks' = [socks EXCEPT ![s].state = "open"]
  /\ activations' =
       [a \in DOMAIN activations |->
          IF a \in Awaiting(s)
          THEN [activations[a] EXCEPT
                  !.stage = IF wsRef # 0 THEN "done" ELSE "failed"]
          ELSE activations[a]]
  /\ isMicrophoneActive' =
       IF Awaiting(s) # {} /\ wsRef # 0
       THEN SetState(isMicrophoneActive, TRUE)
       ELSE isMicrophoneActive
  /\ UNCHANGED <<wsRef, uiTimers, reconnectTimeoutRef, mounted,
                 isReconnecting, clientSent, uiInputs>>
  /\ UNCHANGED serverVars

\* onerror of socket s while connecting: reject(); the close event follows
AdminSocketError(s) ==
  /\ socks[s].state = "connecting"
  /\ uiEv' = "onerror"
  /\ socks' = [socks EXCEPT ![s].state = "closing"]
  /\ activations' =
       [a \in DOMAIN activations |->
          IF a \in Awaiting(s)
          THEN [activations[a] EXCEPT !.stage = "failed"]
          ELSE activations[a]]
  /\ UNCHANGED <<wsRef, uiTimers, reconnectTimeoutRef, mounted,
                 isReconnecting, isMicrophoneActive, clientSent, uiInputs>>
  /\ UNCHANGED serverVars

\* onclose of socket s: status only, no reconnect
AdminSocketClose(s) ==
  /\ socks[s].state \in {"open", "closing"}
  /\ uiEv' = "onclose"
  /\ socks' = [socks EXCEPT ![s].state = "closed"]
  /\ UNCHANGED <<wsRef, uiTimers, reconnectTimeoutRef, mounted,
                 isReconnecting, isMicrophoneActive, activations, clientSent,
                 uiInputs>>
  /\ UNCHANGED serverVars

\* handleLanguageChange, then the selectedLanguage effect: each sends
\* setLanguage when the socket is open
AdminLanguageChange ==
  /\ mounted
  /\ uiInputs < MaxGestures
  /\ uiInputs' = uiInputs + 1
  /\ uiEv' = "languageChange"
  /\ clientSent' =
       IF AlreadyOpen
       THEN clientSent \o <<[sock |-> wsRef, type |-> "setLanguage"],
                            [sock |-> wsRef, type |-> "setLanguage"]>>
       ELSE clientSent
  /\ UNCHANGED <<socks, wsRef, uiTimers, reconnectTimeoutRef, mounted,
                 isReconnecting, isMicrophoneActive, activations>>
  /\ UNCHANGED serverVars

\* unmount: the effect's cleanup calls deactivateMicrophone()
AdminUnmount ==
  /\ mounted
  /\ mounted' = FALSE
  /\ uiEv' = "unmount"
  /\ socks' = SockClose(socks, wsRef)
  /\ wsRef' = 0
  /\ isMicrophoneActive' = FALSE
  /\ UNCHANGED <<uiTimers, reconnectTimeoutRef, isReconnecting, activations,
                 clientSent, uiInputs>>
  /\ UNCHANGED serverVars

AdminNext ==
  \/ AdminToggle
  \/ \E a \in 1..Len(activations) : AdminMediaGranted(a)
  \/ \E a \in 1..Len(activations) : AdminMediaDenied(a)
  \/ \E s \in 1..Len(socks) : AdminSocketOpen(s)
  \/ \E s \in 1..Len(socks) : AdminSocketError(s)
  \/ \E s \in 1..Len(socks) : AdminSocketClose(s)
  \/ AdminLanguageChange
  \/ AdminUnmount

AdminSpec == AdminInit /\ [][AdminNext]_vars

TypeOK ==
  /\ ws \in {"OPEN", "CLOSING", "CLOSED"}
  /\ deepgramConnection \in 1..Len(conns)
  /\ micInstance \in 0..Len(mics)
  /\ Len(conns) + timers <= MaxConns
  /\ inputs <= MaxInputs

\* ------------------------------------------------------------ properties
RECURSIVE SumLen(_)
SumLen(sent) ==
  IF sent = <<>> THEN 0 ELSE sent[1].len + SumLen(Tail(sent))

IsStatus(m, value) == m.type = "status" /\ m.data = value

\* C1: no audio chunk is passed to the upstream stream while isMuted is true,
\* whether it came from the microphone or from an audioData message.
C1_NoForwardWhileMuted ==
  \A i \in DOMAIN forwarded : ~forwarded[i].muted

\* C2: at most one upstream connection created by the session is open at any
\* instant.
C2_AtMostOneOpen ==
  Cardinality({c \in DOMAIN conns : conns[c].state = "open"}) <= 1

\* C3: 'transcript' events reach the client in the order in which the
\* upstream emitted the transcripts they carry.
C3_DeliveredInOrder ==
  \A i, j \in DOMAIN delivered :
    i < j => delivered[i].id <= delivered[j].id

\* C4: once the client has set the language to L, the translation call made
\* for a transcript that arrives next uses L as its target language.
C4_TranslationUsesSetLanguage ==
  [][\A p \in pending' \ pending :
       lastLangMsg # "none" => p.lang = lastLangMsg]_vars

C4_Witness ==
  /\ ev = "transcript"
  /\ lastLangMsg = "ko"
  /\ \E p \in pending : p.id = inputs /\ p.lang = "ko"

\* C5: a transcript that is empty or only whitespace causes no translation
\* call and no 'transcript' event.
C5_BlankNeverTranslated ==
  /\ \A p \in pending : Trim(p.text) # <<>>
  /\ \A i \in DOMAIN delivered : Trim(delivered[i].payload.original) # <<>>
  /\ (ev = "transcript"
      /\ \E i \in DOMAIN out : out[i].data = "Received empty transcript")
     => \A p \in pending : p.id # inputs

C5_Witness ==
  /\ ev = "transcript"
  /\ \E i \in DOMAIN out : out[i].data = "Received empty transcript"
  /\ pending = {}
  /\ delivered = <<>>

\* C6: a second run of the client-close handler releases nothing again: no
\* microphone is stopped and no upstream connection is finished by it.
C6_SecondCloseReleasesNothing ==
  [][(closeRuns >= 1 /\ closeRuns' = closeRuns + 1)
       => (mics' = mics /\ conns' = conns)]_vars

\* C7: the 'transcript' event for transcript T, translated for language L
\* with result R, carries exactly original T, translated R and the label of L.
C7_ExactPayload ==
  \A i \in DOMAIN delivered :
    LET d == delivered[i] IN
      /\ d.payload.translated = TranslateResult(d.payload.original, d.lang)
      /\ d.payload.language = supportedLanguages(d.lang)

\* C8: an arriving audio chunk is forwarded upstream if and only if isMuted
\* is false and the upstream is connected.
C8_ForwardedIffUnmutedAndConnected ==
  [][ev' \in {"micData", "audioData"}
       => ((Len(forwarded') = Len(forwarded) + 1)
           <=> (~isMuted /\ isDeepgramConnected /\ HandleOpen))]_vars

\* C9: when an upstream connection reports closed while the client link is
\* open, isDeepgramConnected becomes false and a 'status' Disconnected event
\* is sent to the client.
C9_CloseReported ==
  [][(ev' = "close" /\ ws = "OPEN")
       => /\ ~isDeepgramConnected'
          /\ \E i \in DOMAIN out' :
               IsStatus(out'[i], "Disconnected") /\ out'[i].link = "OPEN"]_vars

C9_Witness ==
  /\ ev = "close"
  /\ ws = "OPEN"
  /\ \E c \in DOMAIN conns : conns[c].state = "closed" /\ conns[c].listeners > 0

\* C10: every upstream close while the client link stays open is eventually
\* followed by the creation of a new upstream connection.
C10_CloseLeadsToReconnect ==
  \A n \in 1..MaxConns :
    (ev = "close" /\ ws = "OPEN" /\ Len(conns) = n)
      ~> (Len(conns) > n \/ ws # "OPEN")

\* C11: when a translation call rejects, no 'transcript' event is sent for
\* it, a 'debug' event is sent to the open client link instead, no call is
\* made again for it, and language, mute flag and upstream connection stay
\* as they were.
C11_RejectDropsTranscript ==
  [][/\ ev' = "reject"
        => /\ delivered' = delivered
           /\ ws = "OPEN" => \E i \in DOMAIN out' :
                               out'[i].type \in {"debug", "error"}
           /\ pending' \subseteq pending /\ pending' # pending
           /\ UNCHANGED <<currentLanguage, isMuted, isDeepgramConnected,
                          deepgramConnection, conns, isWebSocketClosed>>
     /\ \A p \in pending' \ pending : p.id = inputs' /\ inputs' = inputs + 1
     /\ Len(delivered') > Len(delivered)
        => \E p \in pending \ pending' :
             /\ p.id = delivered'[Len(delivered')].id
             /\ p.listener = delivered'[Len(delivered')].listener]_vars

C11_Witness ==
  /\ ev = "reject"
  /\ ws = "OPEN"
  /\ delivered = <<>>
  /\ pending = {}
  /\ inputs = 1
  /\ \E i \in DOMAIN out : out[i].data = "Translation error"

\* C12: an audio chunk is passed only to an upstream connection that is open,
\* and only in the step in which it arrives; a chunk that arrives while the
\* upstream is connecting, closed or absent is never sent.
C12_SentOnlyToOpen ==
  [][/\ forwarded' # forwarded
        => /\ ev' \in {"micData", "audioData"}
           /\ Len(forwarded') = Len(forwarded) + 1
           /\ SubSeq(forwarded', 1, Len(forwarded)) = forwarded
           /\ LET f == forwarded'[Len(forwarded')] IN
                /\ f.id = inputs'
                /\ f.conn # 0
                /\ conns[f.conn].state = "open"
     /\ (ev' \in {"micData", "audioData"} /\ ~HandleOpen)
        => forwarded' = forwarded]_vars

C12_Witness ==
  /\ ev = "micData"
  /\ isDeepgramConnected
  /\ conns[deepgramConnection].state = "connecting"
  /\ forwarded = <<>>

\* C13: once the client-close handler has run, no upstream connection is
\* created any more, whatever timers fire or microphone chunks arrive.
C13_NoConnectionAfterClientClose ==
  [][isWebSocketClosed => Len(conns') = Len(conns)]_vars

C13_Witness ==
  /\ ev = "timer"
  /\ isWebSocketClosed
  /\ ~isDeepgramConnected

\* C14: no 'transcript' event is passed to the client link after the
\* client-close handler has run.
C14_NoTranscriptAfterClientClose ==
  \A i \in DOMAIN delivered : delivered[i].link # "CLOSED"

\* C15: once the client-close handler has run the session is never connected
\* again and no 'status' Connected is sent.
C15_ClosedIsTerminal ==
  isWebSocketClosed
    => /\ ~isDeepgramConnected
       /\ \A i \in DOMAIN out : ~IsStatus(out[i], "Connected")

C15_Witness ==
  /\ ev = "open"
  /\ isWebSocketClosed
  /\ \E c \in DOMAIN conns : conns[c].state = "open"

\* C16: after the client disconnected every microphone instance the session
\* started is stopped and every upstream connection it created is finished
\* or closed.
C16_AllReleasedAfterClientClose ==
  isWebSocketClosed
    => /\ \A m \in DOMAIN mics : ~mics[m].running
       /\ \A c \in DOMAIN conns : Live(c) => conns[c].finishCalls > 0

\* C17: between an upstream close with the client open and the next upstream
\* open exactly one connection is created.
C17_OneReconnectPerClose ==
  [][/\ created' <= 1
     /\ (ev' = "open" /\ created >= 0) => created = 1]_vars

\* C18: at most one upstream connection of the session is connecting or open
\* at any time.
C18_AtMostOneLive ==
  Cardinality({c \in DOMAIN conns : Live(c)}) <= 1

\* C19: the chunks sent upstream are a subsequence of the arriving chunks, in
\* arrival order: none is sent twice, out of order or merged with another.
C19_ForwardedInArrivalOrder ==
  /\ \A i \in DOMAIN forwarded : forwarded[i].id \in 1..inputs
  /\ \A i, j \in DOMAIN forwarded :
       i < j => forwarded[i].id < forwarded[j].id
  /\ \A i \in DOMAIN forwarded : forwarded[i].len \in ChunkLens

C19_Witness ==
  /\ Len(forwarded) = 2
  /\ forwarded[1].src = "client"
  /\ forwarded[2].src = "mic"

\* C20: a 'status' Connected is sent only by the handler of an upstream open
\* event: never at connect time and never while no connection has opened.
C20_ConnectedOnlyOnOpen ==
  (\E i \in DOMAIN out : IsStatus(out[i], "Connected"))
    => /\ ev = "open"
       /\ \E c \in DOMAIN conns : conns[c].state = "open"

C20_Witness ==
  /\ ev = "open"
  /\ \E i \in DOMAIN out : IsStatus(out[i], "Connected")

\* C21: an upstream error event takes the session along the path of an
\* upstream close: after it isDeepgramConnected is false.
C21_ErrorDisconnects ==
  [][ev' = "error" => ~isDeepgramConnected']_vars

C23_NoCaptureAfterMicError ==
  [][(\E m \in DOMAIN mics : mics[m].errored) => Len(mics') = Len(mics)]_vars

\* C25: setLanguage changes only currentLanguage; the upstream stream, the
\* mute flag and the connection flags stay, and the next transcript's
\* translation call uses the new language.
C25_SetLanguageFrame ==
  [][/\ ev' = "setLanguage"
        => /\ UNCHANGED <<ws, deepgramConnection, micInstance,
                          isDeepgramConnected, totalAudioBytesSent, isMuted,
                          isWebSocketClosed, conns, mics, timers, pending,
                          delivered, forwarded>>
           /\ currentLanguage' \in InputLanguages
     /\ (ev = "setLanguage" /\ ev' = "transcript")
        => \A p \in pending' \ pending : p.lang = currentLanguage]_vars

C25_Witness ==
  /\ ev = "transcript"
  /\ currentLanguage = "fr"
  /\ inputs = 2
  /\ \E p \in pending : p.id = 2 /\ p.lang = "fr"
  /\ conns[deepgramConnection].finishCalls = 0

\* C26: mute and unmute change only isMuted; the audio source, the upstream
\* stream and currentLanguage stay.
C26_MuteFrame ==
  [][ev' \in {"mute", "unmute"}
       => /\ isMuted' = (ev' = "mute")
          /\ UNCHANGED <<ws, deepgramConnection, micInstance,
                         isDeepgramConnected, totalAudioBytesSent,
                         currentLanguage, isWebSocketClosed, conns, mics,
                         timers, pending, delivered, forwarded>>]_vars

C26_Witness ==
  /\ ev = "unmute"
  /\ ~isMuted
  /\ inputs = 2
  /\ micInstance # 0
  /\ mics[micInstance].running

\* C27: every audio chunk that is dropped instead of forwarded causes a
\* 'debug' event to the open client link, on the microphone path and on the
\* audioData path.
C27_DropExplained ==
  [][(ev' \in {"micData", "audioData"} /\ forwarded' = forwarded
      /\ ws = "OPEN")
       => \E i \in DOMAIN out' : out'[i].type = "debug"]_vars

\* C28: a binary frame from the client is handled as one audio chunk: it is
\* forwarded when the session is unmuted and the upstream is connected.
C28_BinaryFrameIsAudio ==
  [][ev' = "binary"
       => ((Len(forwarded') = Len(forwarded) + 1) <=> AudioDataForwards)]_vars

\* C29: in the logger variant, once the client WebSocket has closed and the
\* finished upstream stream has closed, no upstream connection is created
\* and no microphone is started any more.
C29_LoggerNoRetryAfterClose ==
  [][(closeRuns > 0 /\ conns[deepgramConnection].state = "closed")
       => Len(conns') = Len(conns) /\ Len(mics') = Len(mics)]_vars

\* C30: the language label of every 'transcript' event is the label of the
\* language code its translation call was made with.
C30_LabelMatchesCall ==
  \A i \in DOMAIN delivered :
    delivered[i].payload.language = supportedLanguages(delivered[i].lang)

\* C31: no upstream stream ever has more than one Transcript listener
\* registered by the session, so a transcript causes at most one translation
\* call and one 'transcript' event.
C31_OneListenerPerStream ==
  \A c \in DOMAIN conns : conns[c].listeners <= 1

\* C32: isDeepgramConnected is true only if the stream referenced by
\* deepgramConnection has opened and has not closed.
C32_FlagAgreesWithHandle ==
  isDeepgramConnected => conns[deepgramConnection].state = "open"

\* C33: at most one microphone instance of the session is running at any
\* time.
C33_OneMicrophoneRunning ==
  Cardinality({m \in DOMAIN mics : mics[m].running}) <= 1

\* C34: totalAudioBytesSent is the sum of the lengths of all chunks sent to
\* an upstream stream so far; reconnects do not reset it.
C34_BytesSentIsSum ==
  totalAudioBytesSent = SumLen(forwarded)

C34_Witness ==
  /\ Len(forwarded) = 2
  /\ forwarded[1].conn # forwarded[2].conn
  /\ forwarded[1].src # forwarded[2].src
  /\ totalAudioBytesSent = 3

\* C35: after UserTranscriptionView has unmounted, the component creates no
\* WebSocket any more.
C35_NoSocketAfterUnmount ==
  [][~mounted => Len(socks') = Len(socks)]_vars

\* C36: after TranscriptionApp has unmounted no reconnect timer is pending,
\* and at no time are two reconnect timers pending.
C36_NoTimerAfterUnmount ==
  LET pendingTimers == {t \in DOMAIN uiTimers : uiTimers[t].state = "pending"}
  IN  /\ ~mounted => pendingTimers = {}
      /\ Cardinality(pendingTimers) <= 1

\* C37: once a toggle has made the microphone active, an 'unmute' message
\* has been sent over the WebSocket that activation opened.
C37_ActivationSendsUnmute ==
  (isMicrophoneActive /\ wsRef # 0)
    => \E i \in DOMAIN clientSent :
         clientSent[i] = [sock |-> wsRef, type |-> "unmute"]

====
